---- MODULE Spec2Model ----
(***************************************************************************)
(* Bubble Pop Master: the game logic of the App component with pause and   *)
(* tutorial (src/App.tsx, second definition, lines 625-1178).              *)
(*                                                                         *)
(* One action per event handler or callback.  Every handler runs to        *)
(* completion on the single UI thread, its functional state updaters are   *)
(* applied in the order they were queued, and the component is rendered    *)
(* again before the next event, so a handler reads the current state.      *)
(*                                                                         *)
(* Spec: the effects of a render run before the next frame.  LateSpec: a   *)
(* requested frame may also come before the effects of the GameOver        *)
(* render.  CallSpec: pauseGame and resumeGame are called in any status,   *)
(* not only through the buttons that are shown.  GateSpec, SpawnSpec and   *)
(* FeedbackSpec apply the spawn timer, createBubble and the feedback       *)
(* services to inputs drawn at the start; AloneSpec is a game in which     *)
(* nothing is tapped, with fair frames; FirstSpec is the GameOver effect   *)
(* of the first definition of App in the same file.                        *)
(*                                                                         *)
(* Numbers: positions and speeds are in 1/1000 px, particle and text life  *)
(* in 1/1000, Math.random() draws are named inputs (rand in 1/100, the     *)
(* size and speed draws in 1/10).  Fields the game logic never reads (x,   *)
(* isPopping, particle position and velocity, element ids of particles and *)
(* texts, audio, shake) are left out.                                      *)
(***************************************************************************)
EXTENDS Integers, Sequences, FiniteSets, TLC

\* ------------------------------------------------------------ constants
INITIAL_LIVES == 3
MAX_LIVES == 5
SPAWN_INTERVAL == 800

\* ------------------------------------------------------------ bounds
\* bubbles created in one session, per environment
MaxSpawnedSlow == 13
MaxSpawnedRain == 34
MaxSpawnedGold == 1
MaxSpawnedPair == 2
MaxSpawnedPlay == 3
MaxSpawnedArmored == 2
MaxSpawnedMix == 2
\* particles alive at once, per environment
MaxParticlesSlow == 15
MaxParticlesPlay == 90
\* feedback timers pending at once
MaxTimers == 2
MaxIdle == 6000
\* bubbles created by direct calls of createBubble
MaxSpawnedCall == 3
\* bubbles and levels of the runs that watch the spawn timer
MaxSpawnedGate == 1
\* the levels of the games that are left alone
MaxLevelAlone == 6
MaxLevelGate == 20

\* ------------------------------------------------------------ state
VARIABLES
  gameState,          \* score, lives, level, status, geminiMessage, backgroundUrl, highScore
  bubbles,            \* live bubbles, in creation order
  particles,          \* live particles
  floatingTexts,      \* live floating texts
  isLoadingFeedback,  \* the "Analizando..." flag
  isGeneratingBg,     \* the flag set while a background generation is in flight
  bgRequests,         \* generateContent calls of generateBackground not yet settled
  tutorialStep,       \* step shown by the tutorial overlay
  sinceSpawn,         \* performance.now() - lastSpawnRef.current, in ms
  nextId,             \* the next bubble id of the session
  feedbackTimers,     \* pending setTimeout callbacks of the GameOver effect
  localStorage,       \* the stored bubblePopHighScore
  gameLoopRef,        \* a frame of gameLoop is requested and not cancelled
  env                 \* the environment of this run: frame timing, random draws, container, API key

vars == <<gameState, bubbles, particles, floatingTexts, isLoadingFeedback,
          isGeneratingBg, bgRequests, tutorialStep, sinceSpawn, nextId, feedbackTimers,
          localStorage, env, gameLoopRef>>

\* GameStatus
START == "START"
TUTORIAL == "TUTORIAL"
PLAYING == "PLAYING"
PAUSED == "PAUSED"
GAMEOVER == "GAMEOVER"

\* BubbleType
STANDARD == "STANDARD"
SPEEDY == "SPEEDY"
ARMORED == "ARMORED"
HEART == "HEART"
GOLD == "GOLD"

\* ------------------------------------------------------------ helpers
Min(a, b) == IF a < b THEN a ELSE b
Max(a, b) == IF a > b THEN a ELSE b

Repeat(n, x) == [i \in 1..n |-> x]

\* prev.findIndex(b => b.id === id): 0 stands for -1
FindIndex(s, id) ==
  IF \E i \in 1..Len(s) : s[i].id = id
  THEN CHOOSE i \in 1..Len(s) : s[i].id = id /\ \A j \in 1..(i - 1) : s[j].id # id
  ELSE 0

\* ------------------------------------------------------------ environments
\* What a run draws its inputs from: the frame intervals dts (ms), the draws of
\* createBubble (rands in 1/100, sizeRands and speedRands in 1/10), the heights of
\* the container (px), whether process.env.API_KEY is set, and the bounds; idles
\* are the times (ms) that pass while no frame is requested.
\* one Speedy bubble per frame until the game is over, one tap at a time
SlowEnv ==
  [dts |-> {800}, idles |-> {}, rands |-> {20}, sizeRands |-> {0}, speedRands |-> {9},
   clientHeights |-> {0}, apiKey |-> FALSE,
   maxSpawned |-> MaxSpawnedSlow, maxParticles |-> MaxParticlesSlow]
\* one Standard bubble per frame until the game is over, no taps
RainEnv ==
  [dts |-> {800}, idles |-> {}, rands |-> {50}, sizeRands |-> {0}, speedRands |-> {9},
   clientHeights |-> {0}, apiKey |-> FALSE,
   maxSpawned |-> MaxSpawnedRain, maxParticles |-> 0]
\* one Gold or Standard bubble, two frames per spawn, no taps, an API key,
\* long pauses
GoldEnv ==
  [dts |-> {400}, idles |-> {5000}, rands |-> {11, 50}, sizeRands |-> {0}, speedRands |-> {9},
   clientHeights |-> {0}, apiKey |-> TRUE,
   maxSpawned |-> MaxSpawnedGold, maxParticles |-> 0]
\* two Speedy bubbles in a container that is resized, two frames per spawn, no taps
PairEnv ==
  [dts |-> {400}, idles |-> {}, rands |-> {20}, sizeRands |-> {0}, speedRands |-> {9},
   clientHeights |-> {0, 17}, apiKey |-> FALSE,
   maxSpawned |-> MaxSpawnedPair, maxParticles |-> 0]
\* a few Heart and Gold bubbles, any number of taps
BonusEnv ==
  [dts |-> {800}, idles |-> {}, rands |-> {2, 11}, sizeRands |-> {0}, speedRands |-> {9},
   clientHeights |-> {0}, apiKey |-> FALSE,
   maxSpawned |-> MaxSpawnedPlay, maxParticles |-> MaxParticlesPlay]
\* a few Armored bubbles, any number of taps
ArmoredEnv ==
  [dts |-> {800}, idles |-> {}, rands |-> {30}, sizeRands |-> {0}, speedRands |-> {9},
   clientHeights |-> {0}, apiKey |-> FALSE,
   maxSpawned |-> MaxSpawnedArmored, maxParticles |-> MaxParticlesPlay]
\* Gold and Standard bubbles of two sizes, any number of taps
MixEnv ==
  [dts |-> {800}, idles |-> {}, rands |-> {11, 50}, sizeRands |-> {0, 5}, speedRands |-> {9},
   clientHeights |-> {0}, apiKey |-> FALSE,
   maxSpawned |-> MaxSpawnedMix, maxParticles |-> MaxParticlesPlay]

Envs == {SlowEnv, RainEnv, GoldEnv, PairEnv, BonusEnv, ArmoredEnv, MixEnv}

\* ------------------------------------------------------------ Init
Init ==
  /\ gameState = [score |-> 0, lives |-> INITIAL_LIVES, level |-> 1, status |-> START,
                  geminiMessage |-> "", backgroundUrl |-> "", highScore |-> 0]
  /\ bubbles = <<>>
  /\ particles = <<>>
  /\ floatingTexts = <<>>
  /\ isLoadingFeedback = FALSE
  /\ isGeneratingBg = FALSE
  /\ bgRequests = 0
  /\ tutorialStep = 0
  /\ sinceSpawn = 0
  /\ nextId = 1
  /\ feedbackTimers = <<>>
  /\ localStorage = 0
  /\ gameLoopRef = FALSE
  /\ env \in Envs

\* ------------------------------------------------------------ flow control
\* The effect on [status, gameLoop], run with the render of the new status: its
\* cleanup cancels the requested frame, its body requests one while Playing.
LoopEffect == gameLoopRef' = (gameState'.status = PLAYING)

StartTutorial ==
  /\ gameState.status = START
  /\ tutorialStep' = 0
  /\ gameState' = [gameState EXCEPT !.status = TUTORIAL]
  /\ UNCHANGED <<bubbles, particles, floatingTexts, isLoadingFeedback, isGeneratingBg, bgRequests,
                 sinceSpawn, nextId, feedbackTimers, localStorage, env>>
  /\ LoopEffect

\* generateBackground, up to its await: without an API key it returns at once
GenerateBackgroundRequested == env.apiKey

\* a test that looks at the cache only
BackgroundWantedNoFlightTest == gameState.backgroundUrl = ""

\* startGame's test before generateBackground()
BackgroundWanted == gameState.backgroundUrl = "" /\ ~isGeneratingBg

\* startGame's call of generateBackground: the flag is set and the request sent
GenerateBackgroundCall ==
  IF BackgroundWanted /\ GenerateBackgroundRequested
  THEN isGeneratingBg' = TRUE /\ bgRequests' = bgRequests + 1
  ELSE UNCHANGED <<isGeneratingBg, bgRequests>>

\* startGame that also forgets the record
StartGameUpdateNoRecord ==
  /\ GenerateBackgroundCall
  /\ gameState' = [gameState EXCEPT !.score = 0, !.lives = INITIAL_LIVES, !.level = 1,
                                    !.status = PLAYING, !.geminiMessage = "",
                                    !.highScore = 0]
  /\ bubbles' = <<>>
  /\ particles' = <<>>
  /\ floatingTexts' = <<>>
  /\ sinceSpawn' = 0
  /\ nextId' = 1
  /\ UNCHANGED <<isLoadingFeedback, feedbackTimers, localStorage, env>>
  /\ LoopEffect

\* startGame that keeps the lives of the game before
StartGameUpdateKeepLives ==
  /\ GenerateBackgroundCall
  /\ gameState' = [gameState EXCEPT !.score = 0, !.level = 1,
                                    !.status = PLAYING, !.geminiMessage = ""]
  /\ bubbles' = <<>>
  /\ particles' = <<>>
  /\ floatingTexts' = <<>>
  /\ sinceSpawn' = 0
  /\ nextId' = 1
  /\ UNCHANGED <<isLoadingFeedback, feedbackTimers, localStorage, env>>
  /\ LoopEffect

\* startGame; the effect of the new status requests the first frame
StartGameUpdate ==
  /\ GenerateBackgroundCall
  /\ gameState' = [gameState EXCEPT !.score = 0, !.lives = INITIAL_LIVES, !.level = 1,
                                    !.status = PLAYING, !.geminiMessage = ""]
  /\ bubbles' = <<>>
  /\ particles' = <<>>
  /\ floatingTexts' = <<>>
  /\ sinceSpawn' = 0
  /\ nextId' = 1
  /\ UNCHANGED <<isLoadingFeedback, feedbackTimers, localStorage, env>>
  /\ LoopEffect

\* the restart buttons: HUD (Playing, Paused), pause overlay, game-over overlay
StartGame ==
  /\ gameState.status \in {PLAYING, PAUSED, GAMEOVER}
  /\ StartGameUpdate
  /\ UNCHANGED tutorialStep

\* a button that starts the game one step early
TutorialNextEarly ==
  /\ gameState.status = TUTORIAL
  /\ IF tutorialStep < 2
     THEN /\ tutorialStep' = tutorialStep + 1
          /\ UNCHANGED <<gameState, bubbles, particles, floatingTexts, isLoadingFeedback,
                         isGeneratingBg, bgRequests, sinceSpawn, nextId,
                         feedbackTimers, localStorage, env, gameLoopRef>>
     ELSE /\ StartGameUpdate
          /\ UNCHANGED tutorialStep

\* the tutorial overlay's button
TutorialNext ==
  /\ gameState.status = TUTORIAL
  /\ IF tutorialStep < 3
     THEN /\ tutorialStep' = tutorialStep + 1
          /\ UNCHANGED <<gameState, bubbles, particles, floatingTexts, isLoadingFeedback,
                         isGeneratingBg, bgRequests, sinceSpawn, nextId,
                         feedbackTimers, localStorage, env, gameLoopRef>>
     ELSE /\ StartGameUpdate
          /\ UNCHANGED tutorialStep

\* a reset that keeps the bubbles on screen
ResetToMenuKeepBubbles ==
  /\ gameState.status \in {PLAYING, PAUSED, GAMEOVER}
  /\ gameState' = [gameState EXCEPT !.score = 0, !.lives = INITIAL_LIVES, !.level = 1,
                                    !.status = START, !.geminiMessage = ""]
  /\ particles' = <<>>
  /\ floatingTexts' = <<>>
  /\ UNCHANGED <<bubbles, nextId, isLoadingFeedback, isGeneratingBg, bgRequests, tutorialStep,
                 sinceSpawn, feedbackTimers, localStorage, env>>
  /\ LoopEffect

\* resetToMenu: HUD (Playing, Paused), pause overlay, game-over overlay
ResetToMenu ==
  /\ gameState.status \in {PLAYING, PAUSED, GAMEOVER}
  /\ gameState' = [gameState EXCEPT !.score = 0, !.lives = INITIAL_LIVES, !.level = 1,
                                    !.status = START, !.geminiMessage = ""]
  /\ bubbles' = <<>>
  /\ particles' = <<>>
  /\ floatingTexts' = <<>>
  /\ nextId' = 1
  /\ UNCHANGED <<isLoadingFeedback, isGeneratingBg, bgRequests, tutorialStep, sinceSpawn, feedbackTimers,
                 localStorage, env>>
  /\ LoopEffect

\* a resume that leaves lastSpawnRef as it was
ResumeGameKeepTimer ==
  /\ gameState' = [gameState EXCEPT !.status = PLAYING]
  /\ UNCHANGED <<bubbles, particles, floatingTexts, isLoadingFeedback, isGeneratingBg, bgRequests,
                 tutorialStep, sinceSpawn, nextId, feedbackTimers, localStorage, env>>
  /\ LoopEffect

\* the body of resumeGame
ResumeGameUpdate ==
  /\ gameState' = [gameState EXCEPT !.status = PLAYING]
  /\ sinceSpawn' = 0
  /\ UNCHANGED <<bubbles, particles, floatingTexts, isLoadingFeedback, isGeneratingBg, bgRequests,
                 tutorialStep, nextId, feedbackTimers, localStorage, env>>
  /\ LoopEffect

\* resumeGame: HUD button while Paused, pause overlay
ResumeGame ==
  /\ gameState.status = PAUSED
  /\ ResumeGameUpdate

\* pauseGame without its status test, bound to a control that is always shown
PauseGameAnywhere ==
  /\ gameState' = [gameState EXCEPT !.status = PAUSED]
  /\ UNCHANGED <<bubbles, particles, floatingTexts, isLoadingFeedback, isGeneratingBg, bgRequests,
                 tutorialStep, sinceSpawn, nextId, feedbackTimers,
                 localStorage, env>>
  /\ LoopEffect

\* pauseGame: HUD button while Playing
PauseGame ==
  /\ gameState.status = PLAYING
  /\ gameState' = [gameState EXCEPT !.status = PAUSED]
  /\ UNCHANGED <<bubbles, particles, floatingTexts, isLoadingFeedback, isGeneratingBg, bgRequests,
                 tutorialStep, sinceSpawn, nextId, feedbackTimers,
                 localStorage, env>>
  /\ LoopEffect

\* menu buttons that also empty the collections
ReturnToMenuEmpties ==
  /\ gameState.status \in {PAUSED, GAMEOVER}
  /\ gameState' = [gameState EXCEPT !.status = START]
  /\ bubbles' = <<>>
  /\ particles' = <<>>
  /\ floatingTexts' = <<>>
  /\ UNCHANGED <<isLoadingFeedback, isGeneratingBg, bgRequests,
                 tutorialStep, sinceSpawn, nextId, feedbackTimers,
                 localStorage, env>>
  /\ LoopEffect

\* the plain menu buttons of the pause and game-over overlays
ReturnToMenu ==
  /\ gameState.status \in {PAUSED, GAMEOVER}
  /\ gameState' = [gameState EXCEPT !.status = START]
  /\ UNCHANGED <<bubbles, particles, floatingTexts, isLoadingFeedback, isGeneratingBg, bgRequests,
                 tutorialStep, sinceSpawn, nextId, feedbackTimers,
                 localStorage, env>>
  /\ LoopEffect

\* ------------------------------------------------------------ createBubble
\* a Heart band that is open at full lives too
BubbleTypeForHeartAtMax(rand, lives) ==
  LET heartChance == IF lives = 1 THEN 10 ELSE 4
  IN  IF rand < heartChance THEN HEART
      ELSE IF rand < 12 THEN GOLD
      ELSE IF rand < 25 THEN SPEEDY
      ELSE IF rand < 40 THEN ARMORED
      ELSE STANDARD

\* the type chosen for the draw rand (1/100) at the current lives
BubbleTypeFor(rand, lives) ==
  LET heartChance == IF lives = 1 THEN 10 ELSE 4
  IN  IF rand < heartChance /\ lives < MAX_LIVES THEN HEART
      ELSE IF rand < 12 THEN GOLD
      ELSE IF rand < 25 THEN SPEEDY
      ELSE IF rand < 40 THEN ARMORED
      ELSE STANDARD

\* size in px; sizeRand (1/10) is the draw of Math.random() * 40 + 50
BubbleSize(type, sizeRand) ==
  CASE type = HEART -> 70
    [] type = GOLD -> 50
    [] type = SPEEDY -> 40
    [] type = ARMORED -> 80
    [] OTHER -> 4 * sizeRand + 50

\* an Armored bubble that takes two taps
BubbleHealthTwo(type) == IF type = ARMORED THEN 2 ELSE 1

BubbleHealth(type) == IF type = ARMORED THEN 3 ELSE 1

\* speedMult in 1/10
BubbleSpeedMult(type) ==
  CASE type = SPEEDY -> 25
    [] type = ARMORED -> 6
    [] OTHER -> 10

BubblePoints(type) ==
  CASE type = HEART -> 50
    [] type = GOLD -> 500
    [] type = SPEEDY -> 250
    [] type = ARMORED -> 400
    [] OTHER -> 100

BubbleColor(type) ==
  CASE type = HEART -> "rgba(244, 63, 94, 0.8)"
    [] type = GOLD -> "rgba(250, 204, 21, 0.7)"
    [] type = SPEEDY -> "rgba(56, 189, 248, 0.7)"
    [] type = ARMORED -> "rgba(100, 116, 139, 0.8)"
    [] OTHER -> "COLORS"

\* bubbles that do not rise
BubbleSpeedStill(speedRand, level, type) == 0

\* (Math.random() * 2 + 1.2) * (1 + level * 0.1) * speedMult, in 1/1000 px
BubbleSpeed(speedRand, level, type) ==
  ((200 * speedRand + 1200) * (10 + level) * BubbleSpeedMult(type)) \div 100

CreateBubble(id, rand, sizeRand, speedRand, clientHeight) ==
  LET type == BubbleTypeFor(rand, gameState.lives)
      size == BubbleSize(type, sizeRand)
  IN  [id |-> id, y |-> (clientHeight + size) * 1000, size |-> size,
       speed |-> BubbleSpeed(speedRand, gameState.level, type),
       color |-> BubbleColor(type), points |-> BubblePoints(type), type |-> type,
       health |-> BubbleHealth(type), maxHealth |-> BubbleHealth(type)]

\* ------------------------------------------------------------ handlePop
PopParticleCount(b) == IF b.type = GOLD THEN 30 ELSE IF b.type = HEART THEN 25 ELSE 15

PopParticleColor(b) == IF b.type = HEART THEN "#fda4af" ELSE b.color

\* the text of the points for every type
PopTextPoints(b) ==
  [text |-> <<"+", b.points>>,
   color |-> IF b.type = HEART THEN "#f43f5e" ELSE IF b.type = GOLD THEN "#facc15" ELSE "#fff",
   y |-> b.y + (b.size * 1000) \div 2,
   life |-> 1000]

PopText(b) ==
  [text |-> IF b.type = HEART THEN "VIDA +1" ELSE <<"+", b.points>>,
   color |-> IF b.type = HEART THEN "#f43f5e" ELSE IF b.type = GOLD THEN "#facc15" ELSE "#fff",
   y |-> b.y + (b.size * 1000) \div 2,
   life |-> 1000]

\* the updater without Math.min
PopScoreNoCap(s, b) ==
  [s EXCEPT !.score = s.score + b.points,
            !.level = ((s.score + b.points) \div 1200) + 1,
            !.lives = s.lives + (IF b.type = HEART THEN 1 ELSE 0)]

\* the updater with the level of the score before the pop
PopScoreStaleLevel(s, b) ==
  [s EXCEPT !.score = s.score + b.points,
            !.level = (s.score \div 1200) + 1,
            !.lives = Min(MAX_LIVES, s.lives + (IF b.type = HEART THEN 1 ELSE 0))]

\* the updater with the points of a Standard bubble for every type
PopScoreFlat(s, b) ==
  [s EXCEPT !.score = s.score + 100,
            !.level = ((s.score + 100) \div 1200) + 1,
            !.lives = Min(MAX_LIVES, s.lives + (IF b.type = HEART THEN 1 ELSE 0))]

\* the setGameState updater of a destroying pop
PopScore(s, b) ==
  [s EXCEPT !.score = s.score + b.points,
            !.level = ((s.score + b.points) \div 1200) + 1,
            !.lives = Min(MAX_LIVES, s.lives + (IF b.type = HEART THEN 1 ELSE 0))]

\* handlePop without its status guard
PopIgnoredNoStatus(id) == FindIndex(bubbles, id) = 0

\* handlePop returns at once, or its updater returns prev
PopIgnored(id) == gameState.status # PLAYING \/ FindIndex(bubbles, id) = 0

\* a tap that costs two points of health
NewHealthTwo(b) == b.health - 2

\* const newHealth = b.health - 1
NewHealth(b) == b.health - 1

\* a hit that takes the bubble out and puts it back at the end
HitBubbleMoved(s, idx, newHealth) ==
  Append(SelectSeq(s, LAMBDA bubble : bubble.id # s[idx].id),
         [s[idx] EXCEPT !.health = newHealth])

\* const nb = [...prev]; nb[idx] = { ...b, health: newHealth }
\* a hit that also lowers maxHealth
HitBubbleCracked(s, idx, newHealth) ==
  [s EXCEPT ![idx] = [s[idx] EXCEPT !.health = newHealth, !.maxHealth = newHealth]]

HitBubble(s, idx, newHealth) == [s EXCEPT ![idx] = [s[idx] EXCEPT !.health = newHealth]]

\* handlePop that leaves the destroyed bubble in the collection
HandlePopKeepsBubble(id) ==
  LET idx == FindIndex(bubbles, id)
      b == bubbles[idx]
      newHealth == NewHealth(b)
  IN  /\ IF PopIgnored(id)
         THEN UNCHANGED <<gameState, bubbles, particles, floatingTexts>>
         ELSE IF newHealth <= 0
         THEN /\ particles' = particles \o Repeat(PopParticleCount(b),
                                  [color |-> PopParticleColor(b), life |-> 1000])
              /\ floatingTexts' = Append(floatingTexts, PopText(b))
              /\ gameState' = PopScore(gameState, b)
              /\ bubbles' = HitBubble(bubbles, idx, 1)
         ELSE /\ particles' = particles \o Repeat(5, [color |-> "#fff", life |-> 1000])
              /\ bubbles' = HitBubble(bubbles, idx, newHealth)
              /\ UNCHANGED <<gameState, floatingTexts>>
      /\ UNCHANGED <<isLoadingFeedback, isGeneratingBg, bgRequests, tutorialStep, sinceSpawn, nextId,
                     feedbackTimers, localStorage, env, gameLoopRef>>

HandlePop(id) ==
  LET idx == FindIndex(bubbles, id)
      b == bubbles[idx]
      newHealth == NewHealth(b)
  IN  /\ IF PopIgnored(id)
         THEN UNCHANGED <<gameState, bubbles, particles, floatingTexts>>
         ELSE IF newHealth <= 0
         THEN /\ particles' = particles \o Repeat(PopParticleCount(b),
                                  [color |-> PopParticleColor(b), life |-> 1000])
              /\ floatingTexts' = Append(floatingTexts, PopText(b))
              /\ gameState' = PopScore(gameState, b)
              /\ bubbles' = SelectSeq(bubbles, LAMBDA bubble : bubble.id # id)
         ELSE /\ particles' = particles \o Repeat(5, [color |-> "#fff", life |-> 1000])
              /\ bubbles' = HitBubble(bubbles, idx, newHealth)
              /\ UNCHANGED <<gameState, floatingTexts>>
      /\ UNCHANGED <<isLoadingFeedback, isGeneratingBg, bgRequests, tutorialStep, sinceSpawn, nextId,
                     feedbackTimers, localStorage, env, gameLoopRef>>

\* ------------------------------------------------------------ gameLoop
\* an interval without the lower limit
SpawnIntervalNoClamp(level) == SPAWN_INTERVAL - level * 45

SpawnInterval(level) == Max(120, SPAWN_INTERVAL - level * 45)

\* a partition that lets the Heart and Gold bubbles rise on
IsMissedPenalised(b) == b.y < -(b.size * 1000) /\ b.type # HEART /\ b.type # GOLD

IsMissed(b) == b.y < -(b.size * 1000)

IsPenalty(b) == b.type # HEART /\ b.type # GOLD

\* the updater that also takes points for a miss
MissLivesScorePenalty(s, missed) ==
  LET nl == s.lives - 1
  IN  IF nl <= 0 THEN [s EXCEPT !.lives = 0, !.status = GAMEOVER, !.score = s.score - 50]
      ELSE [s EXCEPT !.lives = nl, !.score = s.score - 50]

\* the updater with nl < 0 for nl <= 0
MissLivesBelowZero(s, missed) ==
  LET nl == s.lives - 1
  IN  IF nl < 0 THEN [s EXCEPT !.lives = 0, !.status = GAMEOVER]
      ELSE [s EXCEPT !.lives = nl]

\* the updater that ends the game one life early
MissLivesEarly(s, missed) ==
  LET nl == s.lives - 1
  IN  IF nl <= 1 THEN [s EXCEPT !.lives = nl, !.status = GAMEOVER]
      ELSE [s EXCEPT !.lives = nl]

\* the setGameState updater of a tick in which a penalised bubble is missed
MissLives(s, missed) ==
  LET nl == s.lives - 1
  IN  IF nl <= 0 THEN [s EXCEPT !.lives = 0, !.status = GAMEOVER]
      ELSE [s EXCEPT !.lives = nl]

\* the effect that takes every final score as the record
CommitHighScoreAlways(s) == [s EXCEPT !.highScore = s.score]

\* an effect without the high-score branch
CommitHighScoreNever(s) == s

\* the high-score branch of the effect that runs when status becomes GAMEOVER
CommitHighScore(s) == IF s.score > s.highScore THEN [s EXCEPT !.highScore = s.score] ELSE s

\* dependencies that also hold the score and the record
EffectDepsWithScore(s) == <<s.status, s.level, s.lives, s.score, s.highScore>>

\* What the effect depends on: status, and gameLoop, which is created again when
\* status, level or (through createBubble) lives change.
EffectDeps(s) == <<s.status, s.level, s.lives>>

\* The feedback requests of a GameOver render s: one by the effect, and one more
\* if the render that follows the new record runs the effect again.
FeedbackRequests(s) ==
  LET request == [score |-> s.score, level |-> s.level]
  IN  IF EffectDeps(CommitHighScore(s)) # EffectDeps(s)
      THEN <<request, request>>
      ELSE <<request>>

\* a frame callback that runs whatever was requested or cancelled
LoopRunsAlways == TRUE

\* A frame callback runs when it was requested and not cancelled. The status it
\* tests is the one of the render that created it, and only the callback of a
\* Playing render is ever requested.
LoopRuns == gameLoopRef

\* One frame of gameLoop. flush: the effects of the resulting render (cleanup,
\* high score, feedback request) run before the next frame.
GameLoop(dt, rand, sizeRand, speedRand, clientHeight, flush) ==
  LET spawn == sinceSpawn + dt > SpawnInterval(gameState.level)
      spawned == IF spawn
                 THEN Append(bubbles, CreateBubble(nextId, rand, sizeRand, speedRand, clientHeight))
                 ELSE bubbles
      up == [i \in 1..Len(spawned) |-> [spawned[i] EXCEPT !.y = spawned[i].y - spawned[i].speed]]
      missed == SelectSeq(up, IsMissed)
      after == IF \E i \in 1..Len(missed) : IsPenalty(missed[i])
               THEN MissLives(gameState, missed)
               ELSE gameState
      over == after.status = GAMEOVER
  IN  /\ LoopRuns
      /\ bubbles' = SelectSeq(up, LAMBDA b : ~IsMissed(b))
      /\ particles' = SelectSeq([i \in 1..Len(particles) |->
                                  [particles[i] EXCEPT !.life = particles[i].life - 20]],
                                LAMBDA pt : pt.life > 0)
      /\ floatingTexts' = SelectSeq([i \in 1..Len(floatingTexts) |->
                                      [floatingTexts[i] EXCEPT !.y = floatingTexts[i].y - 1500,
                                                               !.life = floatingTexts[i].life - 15]],
                                    LAMBDA ft : ft.life > 0)
      /\ sinceSpawn' = IF spawn THEN 0 ELSE sinceSpawn + dt
      /\ nextId' = IF spawn THEN nextId + 1 ELSE nextId
      /\ IF flush
         THEN \* the effect of the new status: high score, feedback request
              /\ gameState' = IF over THEN CommitHighScore(after) ELSE after
              /\ localStorage' = IF over /\ after.score > after.highScore THEN after.score
                                 ELSE localStorage
              /\ isLoadingFeedback' = IF over THEN TRUE ELSE isLoadingFeedback
              /\ feedbackTimers' = IF over
                                   THEN feedbackTimers \o FeedbackRequests(after)
                                   ELSE feedbackTimers
              /\ LoopEffect
         ELSE \* the callback has requested the next frame and nothing cancels it
              /\ gameState' = after
              /\ UNCHANGED <<localStorage, isLoadingFeedback, feedbackTimers, gameLoopRef>>
      /\ UNCHANGED <<isGeneratingBg, bgRequests, tutorialStep, env>>

\* ------------------------------------------------------------ callbacks
\* thresholds that are reached by the score itself
GetLocalFeedbackInclusive(score, level) ==
  IF score >= 10000 THEN "EPIC"
  ELSE IF score >= 5000 THEN "HIGH"
  ELSE IF score >= 1500 THEN "MEDIUM"
  ELSE "LOW"

\* getLocalFeedback: the category of the message
GetLocalFeedback(score, level) ==
  IF score > 10000 THEN "EPIC"
  ELSE IF score > 5000 THEN "HIGH"
  ELSE IF score > 1500 THEN "MEDIUM"
  ELSE "LOW"

\* the setTimeout callback of the GameOver effect
FeedbackTimeout ==
  /\ feedbackTimers # <<>>
  /\ gameState' = [gameState EXCEPT !.geminiMessage =
                     GetLocalFeedback(Head(feedbackTimers).score, Head(feedbackTimers).level)]
  /\ isLoadingFeedback' = FALSE
  /\ feedbackTimers' = Tail(feedbackTimers)
  /\ UNCHANGED <<bubbles, particles, floatingTexts, isGeneratingBg, bgRequests, tutorialStep, sinceSpawn, nextId, localStorage, env, gameLoopRef>>

\* generateBackground after its await: an image part, or none, or an error
BackgroundDone(ok) ==
  /\ bgRequests > 0
  /\ bgRequests' = bgRequests - 1
  /\ gameState' = IF ok THEN [gameState EXCEPT !.backgroundUrl = "data:image/png;base64"]
                  ELSE gameState
  /\ isGeneratingBg' = FALSE
  /\ UNCHANGED <<bubbles, particles, floatingTexts, isLoadingFeedback, tutorialStep,
                 sinceSpawn, nextId, feedbackTimers, localStorage, env, gameLoopRef>>

\* ------------------------------------------------------------ specification
\* One frame: gameLoop with inputs of the environment.
Tick ==
  \E dt \in env.dts, rand \in env.rands, sizeRand \in env.sizeRands,
     speedRand \in env.speedRands, clientHeight \in env.clientHeights :
    /\ sinceSpawn + dt > SpawnInterval(gameState.level) => nextId <= env.maxSpawned
    /\ GameLoop(dt, rand, sizeRand, speedRand, clientHeight, TRUE)
    /\ gameState'.status = GAMEOVER => Len(feedbackTimers) < MaxTimers

\* A tap on a bubble of this session, present or already removed.
Pop ==
  \E id \in 1..(nextId - 1) :
    /\ HandlePop(id)
    /\ Len(particles') <= env.maxParticles

Background == \E ok \in BOOLEAN : BackgroundDone(ok)

\* Time passes while no frame is requested: performance.now() moves on,
\* lastSpawnRef.current stays.
Wait ==
  \E idle \in env.idles :
    /\ ~gameLoopRef
    /\ sinceSpawn + idle <= MaxIdle
    /\ sinceSpawn' = sinceSpawn + idle
    /\ UNCHANGED <<gameState, bubbles, particles, floatingTexts, isLoadingFeedback,
                   isGeneratingBg, bgRequests, tutorialStep, nextId, feedbackTimers, localStorage,
                   env, gameLoopRef>>

Next ==
  \/ StartTutorial
  \/ TutorialNext
  \/ StartGame
  \/ ResetToMenu
  \/ ResumeGame
  \/ PauseGame
  \/ ReturnToMenu
  \/ Pop
  \/ Tick
  \/ FeedbackTimeout
  \/ Background
  \/ Wait

Spec == Init /\ [][Next]_vars

\* The handlers pauseGame and resumeGame called in any status, as a caller other
\* than the buttons above would call them.
PauseGameCall ==
  IF gameState.status = PLAYING THEN PauseGame ELSE UNCHANGED vars

ResumeGameCall == ResumeGameUpdate

CallInit == Init /\ env \in {GoldEnv, MixEnv, RainEnv}

CallNext ==
  \/ Next
  \/ PauseGameCall
  \/ ResumeGameCall

CallSpec == CallInit /\ [][CallNext]_vars

\* The frame that makes the game over, or a frame after it, when the effects of
\* the GameOver render have not run by the next frame: the callback has requested
\* that frame and the cleanup has not cancelled it.
TickLate ==
  \E dt \in env.dts, rand \in env.rands, sizeRand \in env.sizeRands,
     speedRand \in env.speedRands, clientHeight \in env.clientHeights :
    /\ sinceSpawn + dt > SpawnInterval(gameState.level) => nextId <= env.maxSpawned
    /\ Len(feedbackTimers) < MaxTimers
    /\ GameLoop(dt, rand, sizeRand, speedRand, clientHeight, FALSE)
    /\ gameState'.status = GAMEOVER

\* a render whose status is not PLAYING is committed, its effects have not run
EffectsPending == gameLoopRef /\ gameState.status # PLAYING

\* the effects of the GameOver render: cleanup, high score, feedback request
FlushEffects ==
  /\ EffectsPending
  /\ gameState' = CommitHighScore(gameState)
  /\ localStorage' = IF gameState.score > gameState.highScore THEN gameState.score
                     ELSE localStorage
  /\ isLoadingFeedback' = TRUE
  /\ feedbackTimers' = feedbackTimers \o FeedbackRequests(gameState)
  /\ LoopEffect
  /\ UNCHANGED <<bubbles, particles, floatingTexts, isGeneratingBg, bgRequests, tutorialStep,
                 sinceSpawn, nextId, env>>

\* The schedules in which a frame may come before the effects of a render; a
\* user event runs after them.
LateInit == Init /\ env \in {GoldEnv, MixEnv, RainEnv, SlowEnv}

LateNext ==
  \/ ~EffectsPending /\ Next
  \/ TickLate
  \/ FlushEffects

LateSpec == LateInit /\ [][LateNext]_vars

\* ------------------------------------------------------------ the spawn timer
\* frames 5 ms apart, so that the time since the last spawn takes every value
\* that an interval can have; one Standard bubble, no taps
GateEnv ==
  [dts |-> {5}, idles |-> {}, rands |-> {50}, sizeRands |-> {0}, speedRands |-> {9},
   clientHeights |-> {0}, apiKey |-> FALSE,
   maxSpawned |-> MaxSpawnedGate, maxParticles |-> 0]

\* a game that has just been resumed at some level with an empty screen
GateInit ==
  /\ \E level \in 1..MaxLevelGate :
       gameState = [score |-> 1200 * (level - 1), lives |-> INITIAL_LIVES, level |-> level,
                    status |-> PLAYING, geminiMessage |-> "", backgroundUrl |-> "",
                    highScore |-> 0]
  /\ bubbles = <<>>
  /\ particles = <<>>
  /\ floatingTexts = <<>>
  /\ isLoadingFeedback = FALSE
  /\ isGeneratingBg = FALSE
  /\ bgRequests = 0
  /\ tutorialStep = 3
  /\ sinceSpawn = 0
  /\ nextId = 1
  /\ feedbackTimers = <<>>
  /\ localStorage = 0
  /\ gameLoopRef = TRUE
  /\ env = GateEnv

GateNext == Tick

GateSpec == GateInit /\ [][GateNext]_vars

\* ------------------------------------------------------------ createBubble alone
\* draws of Math.random() (1/100) on both sides of every threshold
SpawnRands == {0, 3, 4, 9, 10, 11, 12, 24, 25, 39, 40, 99}

\* a running game with no bubble yet, at any number of lives: each life above
\* INITIAL_LIVES came from a Heart bubble worth 50 points
SpawnInit ==
  /\ \E lives \in 1..MAX_LIVES :
       gameState = [score |-> 50 * Max(0, lives - INITIAL_LIVES), lives |-> lives,
                    level |-> 1, status |-> PLAYING, geminiMessage |-> "",
                    backgroundUrl |-> "", highScore |-> 0]
  /\ bubbles = <<>>
  /\ particles = <<>>
  /\ floatingTexts = <<>>
  /\ isLoadingFeedback = FALSE
  /\ isGeneratingBg = FALSE
  /\ bgRequests = 0
  /\ tutorialStep = 3
  /\ sinceSpawn = 0
  /\ nextId = 1
  /\ feedbackTimers = <<>>
  /\ localStorage = 0
  /\ gameLoopRef = TRUE
  /\ env = BonusEnv

\* createBubble() with its draw of the type
CreateBubbleCall ==
  \E rand \in SpawnRands :
    /\ gameState.status = PLAYING
    /\ nextId <= MaxSpawnedCall
    /\ bubbles' = Append(bubbles, CreateBubble(nextId, rand, 0, 9, 0))
    /\ nextId' = nextId + 1
    /\ UNCHANGED <<gameState, particles, floatingTexts, isLoadingFeedback, isGeneratingBg, bgRequests,
                   tutorialStep, sinceSpawn, feedbackTimers, localStorage, env, gameLoopRef>>

SpawnNext == CreateBubbleCall

SpawnSpec == SpawnInit /\ [][SpawnNext]_vars

\* ------------------------------------------------------------ feedback services
\* FEEDBACK_MESSAGES, written without accents and inverted marks
FEEDBACK_MESSAGES ==
  [LOW |-> <<"Animo! El oceano es grande, sigue practicando.",
             "Unas pocas burbujas se escaparon, pero la proxima sera mejor!",
             "Calentando motores... Intentalo de nuevo!",
             "No te rindas! Cada burbuja cuenta.">>,
   MEDIUM |-> <<"Buen ritmo! Estas empezando a dominar las corrientes.",
                "Nada mal! Tus reflejos estan mejorando notablemente.",
                "Sigue asi! Estas cerca de convertirte en un experto.",
                "Excelente esfuerzo! El puntaje sube como la espuma.">>,
   HIGH |-> <<"Increible! Eres un verdadero cazador de burbujas.",
              "Wow! Tus dedos se mueven mas rapido que la luz.",
              "Impresionante! Has dejado el oceano impecable.",
              "Dominio total! Estas en la zona.">>,
   EPIC |-> <<"LEGENDARIO! Las burbujas te temen. Eres el Bubble Master.",
              "Record absoluto! Has alcanzado la maestria suprema.",
              "Simplemente perfecto! Eres una leyenda del pop.",
              "Dios de las burbujas! Tu nombre sera recordado.">>]

\* getLocalFeedback with its draw: random is Math.random() in 1/100
GetLocalFeedbackMessage(score, level, random) ==
  LET messages == FEEDBACK_MESSAGES[GetLocalFeedback(score, level)]
      randomIndex == (random * Len(messages)) \div 100
  IN  messages[randomIndex + 1]

\* getGeminiFeedback that returns the response text as it is
GetGeminiFeedbackNoFallback(response) ==
  IF response.kind = "error" THEN "Increible partida! Listo para otra?"
  ELSE response.text

\* getGeminiFeedback after its await. response.kind: "text" (response.text is a
\* string), "undefined" (response.text is undefined) or "error" (the call threw
\* or the promise was rejected)
GetGeminiFeedback(response) ==
  IF response.kind = "error" THEN "Increible partida! Listo para otra?"
  ELSE IF response.kind = "undefined" \/ response.text = ""
  THEN "Buen intento! Sigue explotando burbujas."
  ELSE response.text

\* the inputs of the feedback services
FeedbackScores == {0, 1, 1499, 1500, 1501, 5000, 5001, 10000, 10001, 25000}
FeedbackLevels == {1, 5, 21}
FeedbackRandoms == {0, 24, 25, 49, 50, 74, 75, 99}
FeedbackResponses ==
  {[kind |-> "text", text |-> "Nada mal, capitan de la espuma."],
   [kind |-> "text", text |-> ""],
   [kind |-> "undefined", text |-> ""],
   [kind |-> "error", text |-> ""]}

\* a game over with final score and level drawn from the inputs, its feedback
\* request pending
FeedbackInit ==
  /\ \E score \in FeedbackScores, level \in FeedbackLevels :
       /\ gameState = [score |-> score, lives |-> 0, level |-> level, status |-> GAMEOVER,
                       geminiMessage |-> "", backgroundUrl |-> "", highScore |-> score]
       /\ feedbackTimers = <<[score |-> score, level |-> level]>>
       /\ localStorage = score
  /\ bubbles = <<>>
  /\ particles = <<>>
  /\ floatingTexts = <<>>
  /\ isLoadingFeedback = TRUE
  /\ isGeneratingBg = FALSE
  /\ bgRequests = 0
  /\ tutorialStep = 3
  /\ sinceSpawn = 0
  /\ nextId = 1
  /\ gameLoopRef = FALSE
  /\ env = RainEnv

\* the result callback of the local service, with the message it draws
LocalFeedback ==
  \E random \in FeedbackRandoms :
    /\ feedbackTimers # <<>>
    /\ gameState' = [gameState EXCEPT !.geminiMessage =
                       GetLocalFeedbackMessage(Head(feedbackTimers).score,
                                               Head(feedbackTimers).level, random)]
    /\ isLoadingFeedback' = FALSE
    /\ feedbackTimers' = Tail(feedbackTimers)
    /\ UNCHANGED <<bubbles, particles, floatingTexts, isGeneratingBg, bgRequests, tutorialStep,
                   sinceSpawn, nextId, localStorage, env, gameLoopRef>>

\* the result callback of the remote service, for every way the call can end
RemoteFeedback ==
  \E response \in FeedbackResponses :
    /\ feedbackTimers # <<>>
    /\ gameState' = [gameState EXCEPT !.geminiMessage = GetGeminiFeedback(response)]
    /\ isLoadingFeedback' = FALSE
    /\ feedbackTimers' = Tail(feedbackTimers)
    /\ UNCHANGED <<bubbles, particles, floatingTexts, isGeneratingBg, bgRequests, tutorialStep,
                   sinceSpawn, nextId, localStorage, env, gameLoopRef>>

FeedbackNext == LocalFeedback \/ RemoteFeedback

FeedbackSpec == FeedbackInit /\ [][FeedbackNext]_vars

\* ------------------------------------------------------------ a game left alone
\* A running game, at some level and with one to three lives and an empty screen,
\* in which the player never taps and only penalised bubbles are drawn (the ids
\* count from the first bubble that follows): frames follow one another for as long as one is requested (the frame
\* callback requests the next one, and the browser runs a requested frame).
AloneInit ==
  /\ \E level \in 1..MaxLevelAlone, lives \in 1..INITIAL_LIVES :
       gameState = [score |-> 1200 * (level - 1), lives |-> lives, level |-> level,
                    status |-> PLAYING, geminiMessage |-> "", backgroundUrl |-> "",
                    highScore |-> 0]
  /\ bubbles = <<>>
  /\ particles = <<>>
  /\ floatingTexts = <<>>
  /\ isLoadingFeedback = FALSE
  /\ isGeneratingBg = FALSE
  /\ bgRequests = 0
  /\ tutorialStep = 3
  /\ sinceSpawn = 0
  /\ nextId = 1
  /\ feedbackTimers = <<>>
  /\ localStorage = 0
  /\ gameLoopRef = TRUE
  /\ env = SlowEnv

AloneNext == Tick

AloneSpec == AloneInit /\ [][AloneNext]_vars /\ WF_vars(Tick)

\* ------------------------------------------------------------ the first App
\* The GameOver effect of the first App definition of App.tsx: it depends on
\* status, gameLoop, score and highScore, and its result callback applies the
\* message of the remote service.
EffectDepsFirst(s) == <<s.status, s.level, s.lives, s.score, s.highScore>>

\* the feedback requests of a GameOver render s: one by the effect, and one more
\* if the render that follows the new record runs the effect again
FeedbackRequestsFirst(s) ==
  LET request == [score |-> s.score, level |-> s.level]
  IN  IF EffectDepsFirst(CommitHighScore(s)) # EffectDepsFirst(s)
      THEN <<request, request>>
      ELSE <<request>>

\* final scores and saved records
FirstScores == {0, 100, 250, 500, 1200, 1500, 5000, 10000}
FirstRecords == {0, 100, 500, 1200, 5000, 12000}

\* the render in which the last life was lost, its effects not yet run
FirstInit ==
  /\ \E score \in FirstScores, record \in FirstRecords :
       /\ gameState = [score |-> score, lives |-> 0, level |-> (score \div 1200) + 1,
                       status |-> GAMEOVER, geminiMessage |-> "", backgroundUrl |-> "",
                       highScore |-> record]
       /\ localStorage = record
  /\ bubbles = <<>>
  /\ particles = <<>>
  /\ floatingTexts = <<>>
  /\ isLoadingFeedback = FALSE
  /\ isGeneratingBg = FALSE
  /\ bgRequests = 0
  /\ tutorialStep = 0
  /\ sinceSpawn = 0
  /\ nextId = 1
  /\ feedbackTimers = <<>>
  /\ gameLoopRef = TRUE
  /\ env = RainEnv

\* the effect of the GameOver render, with the run that the new record causes
StatusEffectFirst ==
  /\ EffectsPending
  /\ gameState' = CommitHighScore(gameState)
  /\ localStorage' = IF gameState.score > gameState.highScore THEN gameState.score
                     ELSE localStorage
  /\ isLoadingFeedback' = TRUE
  /\ feedbackTimers' = feedbackTimers \o FeedbackRequestsFirst(gameState)
  /\ LoopEffect
  /\ UNCHANGED <<bubbles, particles, floatingTexts, isGeneratingBg, bgRequests, tutorialStep,
                 sinceSpawn, nextId, env>>

FirstNext == StatusEffectFirst \/ RemoteFeedback

FirstSpec == FirstInit /\ [][FirstNext]_vars

\* ------------------------------------------------------------ properties
BubbleIds(s) == {s[i].id : i \in 1..Len(s)}

BubbleOf(s, id) == s[FindIndex(s, id)]

\* s without its element at position idx
WithoutIndex(s, idx) == [i \in 1..(Len(s) - 1) |-> IF i < idx THEN s[i] ELSE s[i + 1]]

\* the ids a tap of this session can carry
TapIds == 1..(nextId - 1)

\* a tap on a bubble that is present while the game is played
EffectivePop(id) ==
  /\ HandlePop(id)
  /\ gameState.status = PLAYING
  /\ id \in BubbleIds(bubbles)

\* the penalised bubbles that leave through the top in the next frame
PenaltyMisses ==
  {i \in 1..Len(bubbles) :
     /\ IsPenalty(bubbles[i])
     /\ bubbles[i].y - bubbles[i].speed < -(bubbles[i].size * 1000)}

\* the Heart and Gold bubbles that leave through the top in the next frame
BonusMisses ==
  {i \in 1..Len(bubbles) :
     /\ ~IsPenalty(bubbles[i])
     /\ bubbles[i].y - bubbles[i].speed < -(bubbles[i].size * 1000)}

EntersGameOver == gameState'.status = GAMEOVER /\ gameState.status # GAMEOVER

\* C1: lives is an integer between 0 and MAX_LIVES in every reachable state.
C1_LivesInRange == gameState.lives \in 0..MAX_LIVES

\* lives at MAX_LIVES with a Heart bubble still on screen
C1_Witness ==
  /\ gameState.lives = MAX_LIVES
  /\ gameState.status = PLAYING
  /\ \E i \in 1..Len(bubbles) : bubbles[i].type = HEART

\* C2: a tick in which k penalised bubbles are missed lowers lives by exactly k,
\* clamped at 0 (k = 0: lives is unchanged, whatever Heart and Gold bubbles are missed).
C2_OneLifePerMiss ==
  [][Tick => gameState'.lives = Max(0, gameState.lives - Cardinality(PenaltyMisses))]_vars

\* C3: level = floor(score / 1200) + 1 in every reachable state.
C3_LevelFromScore == gameState.level = (gameState.score \div 1200) + 1

\* a pop has taken the score over the first threshold
C3_Witness ==
  /\ gameState.score >= 1200
  /\ gameState.level = 2
  /\ gameState.status = PLAYING

\* C4: a tick whose miss resolution leaves no life sets lives to exactly 0 and the
\* status to GAMEOVER in the same update; with lives = 1 one missed penalised bubble
\* does so.
C4_GameOverAtZero ==
  [][Tick /\ PenaltyMisses # {}
       => /\ gameState'.lives >= 0
          /\ (gameState'.lives = 0 \/ gameState.lives = 1)
               => gameState'.lives = 0 /\ gameState'.status = GAMEOVER]_vars

\* the game has ended with no life left and no point scored
C4_Witness ==
  /\ gameState.status = GAMEOVER
  /\ gameState.lives = 0
  /\ gameState.score = 0

\* a handler or callback other than the frame
OtherHandler ==
  \/ StartTutorial
  \/ TutorialNext
  \/ StartGame
  \/ ResetToMenu
  \/ ResumeGame
  \/ PauseGame
  \/ ReturnToMenu
  \/ \E id \in TapIds : HandlePop(id)
  \/ FeedbackTimeout
  \/ Background

\* C5: the status becomes GAMEOVER only from PLAYING and only in a tick in which a
\* penalised bubble is missed and lives reaches 0; no other handler or callback
\* makes it GAMEOVER.
C5_GameOverOnlyByMiss ==
  [][/\ EntersGameOver
          => /\ gameState.status = PLAYING
             /\ Tick
             /\ PenaltyMisses # {}
             /\ gameState'.lives = 0
     /\ OtherHandler => ~EntersGameOver]_vars

\* the game has ended and its feedback is pending
C5_Witness ==
  /\ gameState.status = GAMEOVER
  /\ isLoadingFeedback
  /\ feedbackTimers # <<>>

\* C6: a pop while the status is not PLAYING, or of an id that is not in the
\* collection, changes none of bubbles, particles, floating texts and game state.
C6_IgnoredPop ==
  [][\A id \in TapIds :
       HandlePop(id) /\ (gameState.status # PLAYING \/ id \notin BubbleIds(bubbles))
         => UNCHANGED <<bubbles, particles, floatingTexts, gameState>>]_vars

\* paused with a bubble on screen and another one already removed
C6_Witness ==
  /\ gameState.status = PAUSED
  /\ bubbles # <<>>
  /\ \E id \in TapIds : id \notin BubbleIds(bubbles)

\* every bubble has 0 <= health <= maxHealth
HealthInRange ==
  \A i \in 1..Len(bubbles) : bubbles[i].health \in 0..bubbles[i].maxHealth

\* what a step does to the health of a bubble that stays
HealthStep ==
  /\ \A i \in 1..Len(bubbles), j \in 1..Len(bubbles') :
       bubbles[i].id = bubbles'[j].id
         => /\ bubbles'[j].maxHealth = bubbles[i].maxHealth
            /\ bubbles'[j].health <= bubbles[i].health
  /\ Tick
       => \A i \in 1..Len(bubbles), j \in 1..Len(bubbles') :
            bubbles[i].id = bubbles'[j].id => bubbles'[j].health = bubbles[i].health
  /\ \A id \in TapIds :
       EffectivePop(id)
         => \A i \in 1..Len(bubbles), j \in 1..Len(bubbles') :
              bubbles[i].id = bubbles'[j].id
                => bubbles'[j].health =
                     IF id = bubbles[i].id THEN bubbles[i].health - 1 ELSE bubbles[i].health

\* C7: 0 <= health <= maxHealth for every bubble in every reachable state; health
\* never increases, an effective pop lowers it by exactly 1, a tick leaves it.
C7_Health == []HealthInRange /\ [][HealthStep]_vars

\* an Armored bubble that has taken two taps
C7_Witness ==
  \E i \in 1..Len(bubbles) : bubbles[i].maxHealth = 3 /\ bubbles[i].health = 1

\* what a step does to an Armored bubble
ArmoredStep ==
  /\ \A j \in 1..Len(bubbles') :
       bubbles'[j].id \notin BubbleIds(bubbles) /\ bubbles'[j].type = ARMORED
         => bubbles'[j].health = 3
  /\ \A id \in TapIds :
       EffectivePop(id) /\ BubbleOf(bubbles, id).type = ARMORED
         => LET h == BubbleOf(bubbles, id).health
            IN  IF h > 1
                THEN /\ id \in BubbleIds(bubbles')
                     /\ BubbleOf(bubbles', id).health = h - 1
                     /\ Len(bubbles') = Len(bubbles)
                     /\ gameState' = gameState
                ELSE /\ id \notin BubbleIds(bubbles')
                     /\ Len(bubbles') = Len(bubbles) - 1
  /\ \A id \in TapIds :
       id \notin BubbleIds(bubbles)
         => /\ id \notin BubbleIds(bubbles')
            /\ HandlePop(id) => UNCHANGED <<bubbles, particles, floatingTexts, gameState>>

\* C8: an Armored bubble is spawned with health 3, stays after the first and the
\* second effective pop, is removed by the third, and a later pop of its id changes
\* nothing.
C8_ArmoredThreePops ==
  /\ [](\A i \in 1..Len(bubbles) : bubbles[i].type = ARMORED => bubbles[i].health \in 1..3)
  /\ [][ArmoredStep]_vars

\* the only bubble of the session was Armored and went with the third tap
C8_Witness ==
  /\ gameState.status = PLAYING
  /\ nextId = 2
  /\ bubbles = <<>>
  /\ gameState.score = 400
  /\ Len(SelectSeq(particles, LAMBDA pt : pt.color = "#fff")) = 10

\* C9: a destroying pop removes exactly the tapped bubble, adds exactly its points
\* to the score and changes lives only if the bubble is a Heart; a Standard bubble
\* of 100 points popped at score 0, lives 3, level 1 gives score 100, lives 3, level 1.
C9_DestroyingPop ==
  [][\A id \in TapIds :
       EffectivePop(id) /\ BubbleOf(bubbles, id).health <= 1
         => LET b == BubbleOf(bubbles, id)
            IN  /\ bubbles' = WithoutIndex(bubbles, FindIndex(bubbles, id))
                /\ b.points = BubblePoints(b.type)
                /\ gameState'.score = gameState.score + b.points
                /\ gameState'.status = gameState.status
                /\ b.type # HEART => gameState'.lives = gameState.lives
                /\ (/\ b.type = STANDARD
                    /\ gameState.score = 0
                    /\ gameState.lives = 3
                    /\ gameState.level = 1)
                     => /\ gameState'.score = 100
                        /\ gameState'.lives = 3
                        /\ gameState'.level = 1]_vars

\* one Standard bubble popped out of several, nothing else scored
C9_Witness ==
  /\ gameState.status = PLAYING
  /\ gameState.score = 100
  /\ gameState.lives = 3
  /\ gameState.level = 1
  /\ bubbles # <<>>
  /\ \E i \in 1..Len(floatingTexts) : floatingTexts[i].text = <<"+", 100>>

\* C10: a destroying pop of a Heart sets lives to min(MAX_LIVES, lives + 1), so it
\* stays MAX_LIVES at MAX_LIVES, and its floating text is "VIDA +1", not the points.
C10_HeartPop ==
  [][\A id \in TapIds :
       EffectivePop(id) /\ BubbleOf(bubbles, id).type = HEART
         => /\ id \notin BubbleIds(bubbles')
            /\ gameState'.lives = Min(MAX_LIVES, gameState.lives + 1)
            /\ gameState.lives = MAX_LIVES => gameState'.lives = MAX_LIVES
            /\ Len(floatingTexts') = Len(floatingTexts) + 1
            /\ floatingTexts'[Len(floatingTexts')].text = "VIDA +1"]_vars

\* three Hearts popped from lives 3: the last one at MAX_LIVES
C10_Witness ==
  /\ gameState.lives = MAX_LIVES
  /\ gameState.score = 150
  /\ Len(floatingTexts) = 3
  /\ \A i \in 1..Len(floatingTexts) : floatingTexts[i].text = "VIDA +1"

\* C11: a pop that leaves the health of the bubble above 0 keeps the bubble at its
\* position in the collection with health lowered by exactly 1, and leaves every
\* other bubble, the floating texts and the game state (score, lives, level,
\* status) unchanged.
C11_HitPop ==
  [][\A id \in TapIds :
       EffectivePop(id) /\ BubbleOf(bubbles, id).health > 1
         => LET idx == FindIndex(bubbles, id)
            IN  /\ Len(bubbles') = Len(bubbles)
                /\ \A i \in 1..Len(bubbles) :
                     bubbles'[i] =
                       IF i = idx
                       THEN [bubbles[i] EXCEPT !.health = bubbles[i].health - 1]
                       ELSE bubbles[i]
                /\ floatingTexts' = floatingTexts
                /\ gameState' = gameState]_vars

\* two Armored bubbles, the first one hit once and followed by an untouched one
C11_Witness ==
  /\ gameState.status = PLAYING
  /\ gameState.score = 0
  /\ Len(bubbles) = 2
  /\ bubbles[1].health = 2
  /\ bubbles[2].health = 3
  /\ Len(particles) = 5

\* a step of startGame or resetToMenu: the end of a session
SessionBoundary == StartGameUpdate \/ ResetToMenu

\* C12: score is a non-negative integer; within a session neither score nor level
\* ever decreases, and they change only in a destroying pop.
C12_ScoreMonotone ==
  /\ [](gameState.score \in Nat /\ gameState.level \in Nat)
  /\ [][~SessionBoundary
          => /\ gameState'.score >= gameState.score
             /\ gameState'.level >= gameState.level
             /\ (gameState'.score # gameState.score \/ gameState'.level # gameState.level)
                  => \E id \in TapIds :
                       EffectivePop(id) /\ BubbleOf(bubbles, id).health <= 1]_vars

\* points kept while two bubbles were missed
C12_Witness ==
  /\ gameState.status = PLAYING
  /\ gameState.score >= 250
  /\ gameState.lives = 1

\* a step in which startGame is called: a restart button, or the last tutorial step
StartGameCalled == StartGame \/ (TutorialNext /\ tutorialStep >= 3)

\* C13: startGame, from whatever state it is called in, gives score 0, lives
\* INITIAL_LIVES, level 1, status PLAYING, an empty feedback message, empty
\* bubbles, particles and floating texts and a spawn timer set to now, and leaves
\* highScore, the stored record and the cached background as they were.
C13_StartGameResets ==
  [][StartGameCalled
       => /\ gameState'.score = 0
          /\ gameState'.lives = INITIAL_LIVES
          /\ gameState'.level = 1
          /\ gameState'.status = PLAYING
          /\ gameState'.geminiMessage = ""
          /\ bubbles' = <<>>
          /\ particles' = <<>>
          /\ floatingTexts' = <<>>
          /\ sinceSpawn' = 0
          /\ gameState'.highScore = gameState.highScore
          /\ gameState'.backgroundUrl = gameState.backgroundUrl
          /\ localStorage' = localStorage]_vars

\* a fresh session that still shows the record of an earlier one
C13_Witness ==
  /\ gameState.status = PLAYING
  /\ gameState.score = 0
  /\ gameState.lives = INITIAL_LIVES
  /\ gameState.highScore > 0
  /\ bubbles = <<>>
  /\ nextId = 1

\* C14: when the status becomes GAMEOVER, highScore becomes the maximum of the
\* previous highScore and the final score, and the stored record is written (with
\* the final score) exactly when the final score is above the previous highScore.
C14_HighScoreOnGameOver ==
  [][EntersGameOver
       => /\ gameState'.score = gameState.score
          /\ gameState'.highScore = Max(gameState.highScore, gameState.score)
          /\ IF gameState.score > gameState.highScore
             THEN localStorage' = gameState.score
             ELSE /\ localStorage' = localStorage
                  /\ gameState'.highScore = gameState.highScore]_vars

\* a game lost below the record of an earlier one
C14_Witness ==
  /\ gameState.status = GAMEOVER
  /\ gameState.score < gameState.highScore
  /\ localStorage = gameState.highScore

\* the changes of status that the flow description lists
ListedTransitions ==
  {<<START, TUTORIAL>>, <<TUTORIAL, PLAYING>>, <<START, PLAYING>>, <<PLAYING, PAUSED>>,
   <<PAUSED, PLAYING>>, <<PLAYING, GAMEOVER>>, <<GAMEOVER, PLAYING>>, <<GAMEOVER, START>>,
   <<PAUSED, START>>}

\* C15: every change of status is one of Start->Tutorial, Tutorial->Playing,
\* Start->Playing, Playing->Paused, Paused->Playing, Playing->GameOver,
\* GameOver->Playing, GameOver->Start, Paused->Start; nothing takes the status from
\* Playing directly to Start.
C15_ListedTransitionsOnly ==
  [][gameState'.status # gameState.status
       => <<gameState.status, gameState'.status>> \in ListedTransitions]_vars

\* C15, amended: every change of status is one of the listed ones or Playing->Start,
\* and Playing->Start is a step of resetToMenu (the reset button of the HUD), which
\* also zeroes score, lives and level and empties the collections.
C15_TransitionsWithReset ==
  [][gameState'.status # gameState.status
       => /\ <<gameState.status, gameState'.status>>
               \in ListedTransitions \cup {<<PLAYING, START>>}
          /\ gameState.status = PLAYING /\ gameState'.status = START
               => /\ ResetToMenu
                  /\ gameState'.score = 0
                  /\ gameState'.lives = INITIAL_LIVES
                  /\ gameState'.level = 1
                  /\ bubbles' = <<>>]_vars

\* back on the start screen after a session that was reset before any game over
C15_Witness ==
  /\ gameState.status = START
  /\ tutorialStep = 3
  /\ nextId = 1
  /\ bubbles = <<>>
  /\ gameState.score = 0
  /\ gameState.highScore = 0
  /\ feedbackTimers = <<>>
  /\ ~isLoadingFeedback

\* C16: pauseGame called while the status is not PLAYING, and resumeGame called
\* while the status is not PAUSED, change nothing: status, score, lives, level,
\* the spawn timer and the collections stay as they are.
C16_InapplicableCallsIgnored ==
  [][\/ PauseGameCall /\ gameState.status # PLAYING
     \/ ResumeGameCall /\ gameState.status # PAUSED
       => UNCHANGED <<gameState, sinceSpawn, bubbles, particles, floatingTexts>>]_vars

\* C17: while the status is PAUSED nothing of the game changes: no frame and no
\* tap moves, hits, removes or spawns a bubble, ages a particle or a floating
\* text, or changes score, lives or level, until a restart or a reset; a resume
\* finds all of them as the pause left them.
C17_PausedFrozen ==
  [][gameState.status = PAUSED /\ ~SessionBoundary
       => /\ UNCHANGED <<bubbles, particles, floatingTexts, nextId>>
          /\ gameState'.score = gameState.score
          /\ gameState'.lives = gameState.lives
          /\ gameState'.level = gameState.level]_vars

\* a pause with a hit bubble, particles and a floating text on screen
C17_Witness ==
  /\ gameState.status = PAUSED
  /\ \E i \in 1..Len(bubbles) : bubbles[i].health < BubbleHealth(bubbles[i].type)
  /\ particles # <<>>
  /\ floatingTexts # <<>>
  /\ gameState.score > 0

\* C18: resumeGame sets the spawn timer to the time of the resume, so a frame
\* spawns a bubble exactly when more than max(120, 800 - 45 * level) ms have
\* passed since the later of the last spawn and the last resume; the first frame
\* after a resume is no exception, however long the pause was.
C18_ResumeRestartsSpawnTimer ==
  /\ [][ResumeGame => sinceSpawn' = 0 /\ gameState'.status = PLAYING]_vars
  /\ [][Tick => \E dt \in env.dts :
                  /\ sinceSpawn' \in {0, sinceSpawn + dt}
                  /\ sinceSpawn + dt <= 2 * SPAWN_INTERVAL
                  /\ nextId' > nextId <=> sinceSpawn + dt > Max(120, 800 - 45 * gameState.level)]_vars

\* after a resume the first frame did not spawn: the only bubble has moved three
\* times and the timer shows one frame since the resume
C18_Witness ==
  /\ gameState.status = PLAYING
  /\ sinceSpawn = 400
  /\ nextId = 2
  /\ Len(bubbles) = 1
  /\ bubbles[1].y <= bubbles[1].size * 1000 - 3 * bubbles[1].speed

\* C19: a frame changes the game only while the status is PLAYING: once the
\* status is PAUSED, GAMEOVER or START, no frame, whenever it was requested,
\* moves or spawns a bubble, ages a particle or a floating text, or takes a life.
C19_NoFrameUnlessPlaying ==
  [][gameState.status # PLAYING /\ (Tick \/ TickLate)
       => /\ UNCHANGED <<bubbles, particles, floatingTexts, nextId>>
          /\ gameState'.lives = gameState.lives]_vars

\* C20: a feedback result that arrives when the status is no longer GAMEOVER is
\* dropped: it changes neither the feedback message nor the loading flag, so the
\* message of a game that is played or paused is empty.
C20_LateFeedbackDiscarded ==
  /\ [][FeedbackTimeout /\ gameState.status # GAMEOVER
          => /\ gameState'.geminiMessage = gameState.geminiMessage
             /\ isLoadingFeedback' = isLoadingFeedback]_vars
  /\ [](gameState.status \in {PLAYING, PAUSED} => gameState.geminiMessage = "")

\* C21: while the status is GAMEOVER and the feedback request of this entry is
\* still pending, the loading flag is TRUE; during a game over the flag goes to
\* FALSE only when the result of that request, the last one issued, is applied.
C21_LoadingUntilOwnResult ==
  /\ [](gameState.status = GAMEOVER /\ feedbackTimers # <<>> => isLoadingFeedback)
  /\ [][gameState.status = GAMEOVER /\ isLoadingFeedback /\ ~isLoadingFeedback'
          => FeedbackTimeout /\ Len(feedbackTimers) = 1]_vars

\* C22: every entry into GAMEOVER issues exactly one feedback request, also when
\* it records a new high score, and nothing else issues one; a result callback
\* takes exactly one pending request and applies its message, and the message
\* gets a text in no other way.
C22_OneRequestOneResult ==
  /\ [][IF EntersGameOver
        THEN Len(feedbackTimers') = Len(feedbackTimers) + 1
        ELSE Len(feedbackTimers') <= Len(feedbackTimers)]_vars
  /\ [][FeedbackTimeout
          => /\ feedbackTimers' = Tail(feedbackTimers)
             /\ gameState'.geminiMessage =
                  GetLocalFeedback(Head(feedbackTimers).score, Head(feedbackTimers).level)]_vars
  /\ [][gameState'.geminiMessage # gameState.geminiMessage
          => FeedbackTimeout \/ gameState'.geminiMessage = ""]_vars
  /\ [][Len(feedbackTimers') < Len(feedbackTimers) => FeedbackTimeout]_vars

\* a game over that set a new record: its one request was issued and applied
C22_Witness ==
  /\ gameState.status = GAMEOVER
  /\ gameState.score > 0
  /\ gameState.highScore = gameState.score
  /\ localStorage = gameState.score
  /\ feedbackTimers = <<>>
  /\ ~isLoadingFeedback
  /\ gameState.geminiMessage # ""

\* the messages of one tier, and of the whole table
TierMessages(tier) == {FEEDBACK_MESSAGES[tier][i] : i \in 1..Len(FEEDBACK_MESSAGES[tier])}
TableMessages == UNION {TierMessages(tier) : tier \in DOMAIN FEEDBACK_MESSAGES}

\* C23: getFeedback always ends with a non-empty string and never with an error:
\* the remote service gives the response text, one fixed fallback when the text
\* is empty or missing and another when the call fails; the local service gives
\* a message of its table for every score.
C23_FeedbackAlwaysMessage ==
  /\ [][RemoteFeedback
          => /\ gameState'.geminiMessage # ""
             /\ \E response \in FeedbackResponses :
                  gameState'.geminiMessage =
                    IF response.kind = "text" /\ response.text # "" THEN response.text
                    ELSE IF response.kind = "error"
                    THEN "Increible partida! Listo para otra?"
                    ELSE "Buen intento! Sigue explotando burbujas."]_vars
  /\ [][LocalFeedback
          => gameState'.geminiMessage # "" /\ gameState'.geminiMessage \in TableMessages]_vars
  /\ [](feedbackTimers = <<>> => gameState.geminiMessage # "")

\* the fallback of an empty or missing response text was applied
C23_Witness ==
  /\ gameState.status = GAMEOVER
  /\ feedbackTimers = <<>>
  /\ ~isLoadingFeedback
  /\ gameState.geminiMessage = "Buen intento! Sigue explotando burbujas."

\* C24: getLocalFeedback takes its tier from the score alone, with strict
\* thresholds: above 10000 EPIC, above 5000 HIGH, above 1500 MEDIUM, otherwise
\* LOW (10000, 5000 and 1500 themselves fall in the lower tier); the message is
\* one of that tier, whatever the level.
C24_TierByScore ==
  [][LocalFeedback
       => LET score == Head(feedbackTimers).score
              message == gameState'.geminiMessage
          IN  /\ score > 10000 => message \in TierMessages("EPIC")
              /\ score > 5000 /\ score <= 10000 => message \in TierMessages("HIGH")
              /\ score > 1500 /\ score <= 5000 => message \in TierMessages("MEDIUM")
              /\ score <= 1500 => message \in TierMessages("LOW")
              /\ \A level \in FeedbackLevels, random \in FeedbackRandoms :
                   GetLocalFeedbackMessage(score, level, random)
                     = GetLocalFeedbackMessage(score, Head(feedbackTimers).level, random)]_vars

\* a final score of exactly 10000 at level 21 got the last HIGH message
C24_Witness ==
  /\ gameState.score = 10000
  /\ gameState.level = 21
  /\ feedbackTimers = <<>>
  /\ gameState.geminiMessage = FEEDBACK_MESSAGES["HIGH"][4]

\* the type the thresholds give for a draw r (1/100) at the given lives
TypeByThresholds(r, lives) ==
  LET heartChance == IF lives = 1 THEN 10 ELSE 4
  IN  IF r < heartChance /\ lives < MAX_LIVES THEN HEART
      ELSE IF r < 12 THEN GOLD
      ELSE IF r < 25 THEN SPEEDY
      ELSE IF r < 40 THEN ARMORED
      ELSE STANDARD

\* C25: createBubble picks the type by the first matching band of one draw r:
\* Heart iff r < heartChance (0.10 at one life, otherwise 0.04) and lives <
\* MAX_LIVES, else Gold iff r < 0.12, else Speedy iff r < 0.25, else Armored iff
\* r < 0.40, else Standard.  At MAX_LIVES a draw below heartChance gives Gold, and
\* no Heart bubble is created while lives = MAX_LIVES.
C25_TypeByDraw ==
  /\ [][CreateBubbleCall
          => LET new == bubbles'[Len(bubbles')]
             IN  /\ new.type \in {TypeByThresholds(r, gameState.lives) : r \in SpawnRands}
                 /\ gameState.lives = MAX_LIVES => new.type # HEART
                 /\ new.type = HEART => gameState.lives < MAX_LIVES]_vars
  /\ [](\A r \in SpawnRands :
          /\ BubbleTypeFor(r, gameState.lives) = TypeByThresholds(r, gameState.lives)
          /\ gameState.lives = MAX_LIVES /\ r < 4
               => BubbleTypeFor(r, gameState.lives) = GOLD
          /\ gameState.lives = 1 /\ r < 10 => BubbleTypeFor(r, gameState.lives) = HEART
          /\ gameState.lives \in 2..(MAX_LIVES - 1) /\ r >= 4 /\ r < 12
               => BubbleTypeFor(r, gameState.lives) = GOLD)

\* at MAX_LIVES three bubbles were created and one of them, from a low draw, is Gold
C25_Witness ==
  /\ gameState.lives = MAX_LIVES
  /\ Len(bubbles) = 3
  /\ bubbles[1].type = GOLD
  /\ bubbles[2].type = SPEEDY
  /\ bubbles[3].type = STANDARD

\* what the type of a bubble fixes
TypeFixes(b) ==
  /\ b.maxHealth = IF b.type = ARMORED THEN 3 ELSE 1
  /\ b.type = GOLD => b.points = 500
  /\ b.type = SPEEDY => b.points = 250
  /\ b.type = ARMORED => b.points = 400
  /\ b.type = STANDARD => b.points = 100

\* C26: every live bubble has maxHealth 3 if it is Armored and 1 otherwise, and
\* 500, 250, 400 or 100 points if it is Gold, Speedy, Armored or Standard; a
\* bubble is created with health = maxHealth; and type, maxHealth and points of
\* a bubble stay the same from its creation to its removal.
C26_TypeFixesBubble ==
  /\ [](\A i \in 1..Len(bubbles) : TypeFixes(bubbles[i]))
  /\ [][\A j \in 1..Len(bubbles') :
          /\ \A i \in 1..Len(bubbles) :
               bubbles[i].id = bubbles'[j].id
                 => /\ bubbles'[j].type = bubbles[i].type
                    /\ bubbles'[j].maxHealth = bubbles[i].maxHealth
                    /\ bubbles'[j].points = bubbles[i].points
          /\ (\A i \in 1..Len(bubbles) : bubbles[i].id # bubbles'[j].id)
               => bubbles'[j].health = bubbles'[j].maxHealth]_vars

\* two Armored bubbles, the older one hit twice
C26_Witness ==
  /\ Len(bubbles) = 2
  /\ bubbles[1].type = ARMORED /\ bubbles[1].health = 1 /\ bubbles[1].maxHealth = 3
  /\ bubbles[2].type = ARMORED /\ bubbles[2].health = 3 /\ bubbles[2].points = 400

\* C27: a frame spawns at most one bubble, and spawns exactly when the time since
\* the last spawn (or start, or resume) is strictly more than max(120, 800 - 45 *
\* level) ms; that interval is at least 120 ms, never zero or negative, does not
\* grow with the level and is 120 from level 16 on; after a spawn the timer is
\* the time of the frame.
C27_SpawnGate ==
  /\ [][Tick
          => \E dt \in env.dts :
               LET elapsed == sinceSpawn + dt
                   interval == Max(120, 800 - 45 * gameState.level)
               IN  IF elapsed > interval
                   THEN /\ nextId' = nextId + 1
                        /\ Len(bubbles') <= Len(bubbles) + 1
                        /\ sinceSpawn' = 0
                   ELSE /\ nextId' = nextId
                        /\ Len(bubbles') <= Len(bubbles)
                        /\ sinceSpawn' = elapsed]_vars
  /\ [](LET level == gameState.level
        IN  /\ SpawnInterval(level) >= 120
            /\ SpawnInterval(level) > 0
            /\ SpawnInterval(level + 1) <= SpawnInterval(level)
            /\ level >= 16 => SpawnInterval(level) = 120
            /\ level < 16 => SpawnInterval(level) = 800 - 45 * level)

\* at level 16 the frame exactly 120 ms after the resume has not spawned
C27_Witness ==
  /\ gameState.status = PLAYING
  /\ gameState.level = 16
  /\ sinceSpawn = 120
  /\ nextId = 1
  /\ bubbles = <<>>

\* C28: resetToMenu from PAUSED or GAMEOVER gives status START, score 0, lives
\* INITIAL_LIVES, level 1, an empty feedback message and empty bubbles, particles
\* and floating texts, and leaves highScore and the cached background unchanged.
C28_ResetZeroes ==
  [][ResetToMenu /\ gameState.status \in {PAUSED, GAMEOVER}
       => /\ gameState'.status = START
          /\ gameState'.score = 0
          /\ gameState'.lives = INITIAL_LIVES
          /\ gameState'.level = 1
          /\ gameState'.geminiMessage = ""
          /\ bubbles' = <<>>
          /\ particles' = <<>>
          /\ floatingTexts' = <<>>
          /\ gameState'.highScore = gameState.highScore
          /\ gameState'.backgroundUrl = gameState.backgroundUrl]_vars

\* the menu after a reset from a game over that had set a record, its feedback
\* still pending
C28_Witness ==
  /\ gameState.status = START
  /\ gameState.score = 0
  /\ gameState.lives = INITIAL_LIVES
  /\ gameState.level = 1
  /\ gameState.highScore > 0
  /\ bubbles = <<>>
  /\ isLoadingFeedback
  /\ feedbackTimers # <<>>

\* C29: startGame requests a background only when none is cached and none is in
\* flight: at most one generation is in flight at any time, a startGame adds at
\* most one, nothing else adds one, and none is requested once a background is
\* cached.  A generation that fails leaves the background as it was and clears
\* the flag, and startGame makes the status PLAYING whether or not it requests
\* a generation.
C29_OneBackgroundInFlight ==
  /\ [](bgRequests \in {0, 1} /\ (isGeneratingBg <=> bgRequests = 1))
  /\ [][bgRequests' > bgRequests
          => /\ StartGameCalled
             /\ bgRequests' = bgRequests + 1
             /\ gameState.backgroundUrl = ""
             /\ ~isGeneratingBg]_vars
  /\ [][StartGameCalled => gameState'.status = PLAYING]_vars
  /\ [][BackgroundDone(FALSE)
          => /\ gameState' = gameState
             /\ ~isGeneratingBg'
             /\ bgRequests' = 0]_vars
  /\ [][BackgroundDone(TRUE) => gameState'.backgroundUrl # "" /\ ~isGeneratingBg']_vars

\* a generation failed while the game went on: no background, flag cleared, a
\* bubble on screen
C29_Witness ==
  /\ env.apiKey
  /\ gameState.status = PLAYING
  /\ gameState.backgroundUrl = ""
  /\ ~isGeneratingBg
  /\ Len(bubbles) = 1

\* C30: startTutorial gives status TUTORIAL at step 0; a confirmation at a step
\* below 3 adds exactly 1 to the step and changes nothing else, the confirmation
\* at step 3 performs startGame.  So tutorialStep is always in 0..3, PLAYING is
\* entered from TUTORIAL only at step 3, after four confirmations, and from START
\* the status goes nowhere but to TUTORIAL.
C30_TutorialWalk ==
  /\ [](tutorialStep \in 0..3)
  /\ [][StartTutorial => gameState'.status = TUTORIAL /\ tutorialStep' = 0]_vars
  /\ [][TutorialNext
          => IF tutorialStep < 3
             THEN /\ tutorialStep' = tutorialStep + 1
                  /\ UNCHANGED <<gameState, bubbles, particles, floatingTexts,
                                 isLoadingFeedback, isGeneratingBg, sinceSpawn,
                                 feedbackTimers, localStorage>>
             ELSE StartGameUpdate /\ gameState'.status = PLAYING]_vars
  /\ [][gameState.status = START => gameState'.status \in {START, TUTORIAL}]_vars
  /\ [][gameState.status = TUTORIAL
          => /\ tutorialStep' \in {tutorialStep, tutorialStep + 1}
             /\ gameState'.status \in {TUTORIAL, PLAYING}
             /\ gameState'.status = PLAYING => tutorialStep = 3 /\ TutorialNext]_vars

\* the last step of a walk-through that follows an earlier game
C30_Witness ==
  /\ gameState.status = TUTORIAL
  /\ tutorialStep = 3
  /\ gameState.highScore > 0
  /\ gameState.score > 0

\* particles and floating texts that a frame keeps: one step older, still alive
AgedParticles == {i \in 1..Len(particles) : particles[i].life > 20}
AgedTexts == {i \in 1..Len(floatingTexts) : floatingTexts[i].life > 15}

\* a frame takes 0.02 of life from every particle and 0.015 from every floating
\* text and keeps, in order, those whose life is still above 0
FrameDecays ==
  /\ Len(particles') = Cardinality(AgedParticles)
  /\ \A j \in 1..Len(particles') :
       \E i \in AgedParticles : particles'[j].life = particles[i].life - 20
  /\ Len(floatingTexts') = Cardinality(AgedTexts)
  /\ \A j \in 1..Len(floatingTexts') :
       \E i \in AgedTexts : floatingTexts'[j].life = floatingTexts[i].life - 15

\* a tap adds particles and floating texts of life 1.0 behind the ones there are
PopCreatesFresh ==
  /\ Len(particles') >= Len(particles)
  /\ \A i \in 1..Len(particles') :
       particles'[i].life = IF i <= Len(particles) THEN particles[i].life ELSE 1000
  /\ Len(floatingTexts') >= Len(floatingTexts)
  /\ \A i \in 1..Len(floatingTexts') :
       floatingTexts'[i].life = IF i <= Len(floatingTexts) THEN floatingTexts[i].life
                                ELSE 1000

\* C31: particles and floating texts are created with life 1.0 and lose 0.02 and
\* 0.015 of it in every frame of a running game; the frame that brings a life to
\* 0 or below removes the element.  So no element with life <= 0 is ever held,
\* a particle has had at most 49 frames and a floating text at most 66, which
\* makes the 50th and the 67th frame remove them, and a frame that comes while
\* the status is not PLAYING ages nothing.
C31_DecayAndRemoval ==
  /\ [](\A i \in 1..Len(particles) :
          \E k \in 0..49 : particles[i].life = 1000 - 20 * k)
  /\ [](\A i \in 1..Len(floatingTexts) :
          \E k \in 0..66 : floatingTexts[i].life = 1000 - 15 * k)
  /\ [][Pop => PopCreatesFresh]_vars
  /\ [][gameState.status = PLAYING /\ (Tick \/ TickLate) => FrameDecays]_vars
  /\ [][gameState.status # PLAYING /\ (Tick \/ TickLate)
          => UNCHANGED <<particles, floatingTexts>>]_vars

\* the particles a step adds
ParticlesAdded == Len(particles') - Len(particles)

\* C32: the burst of a destroying pop is sized by the type of the bubble alone:
\* 15 particles for Standard and Speedy, 20 for Armored, 25 to 30 for Gold and
\* Heart; a hit that leaves the bubble alive emits 5 to 6 particles and an
\* ignored pop emits none.
C32_BurstByType ==
  [][\A id \in TapIds :
       HandlePop(id)
         => IF gameState.status # PLAYING \/ id \notin BubbleIds(bubbles)
            THEN ParticlesAdded = 0
            ELSE LET b == BubbleOf(bubbles, id)
                 IN  IF b.health > 1 THEN ParticlesAdded \in 5..6
                     ELSE IF b.type \in {STANDARD, SPEEDY} THEN ParticlesAdded = 15
                     ELSE IF b.type = ARMORED THEN ParticlesAdded = 20
                     ELSE ParticlesAdded \in 25..30]_vars

\* C33: in the first App every entry into GAMEOVER issues exactly one feedback
\* request, also when the final score is a new record and the effect's own
\* update of highScore is rendered while the status is still GAMEOVER.
C33_FirstAppOneRequest ==
  [][StatusEffectFirst => Len(feedbackTimers') = Len(feedbackTimers) + 1]_vars

\* a game that is played has a life left; the update that takes the last life
\* ends the game; a step into PLAYING from any status but PAUSED gives 3 lives
LivesWhilePlaying ==
  /\ [](gameState.status = PLAYING => gameState.lives >= 1)
  /\ [][gameState.lives # 0 /\ gameState'.lives = 0
          => gameState'.status = GAMEOVER]_vars
  /\ [][gameState.status \notin {PLAYING, PAUSED} /\ gameState'.status = PLAYING
          => gameState'.lives = INITIAL_LIVES]_vars
  /\ [][gameState.status = PAUSED /\ gameState'.status = PLAYING
          => gameState'.lives \in {gameState.lives, INITIAL_LIVES}]_vars

\* C34: while the status is PLAYING lives >= 1: the update that sets lives to 0
\* also sets GAMEOVER, and every step into PLAYING from GAMEOVER or START sets
\* lives to 3; lives = 0 occurs only with status GAMEOVER or START.
C34_LivesZeroOnlyOverOrStart ==
  /\ LivesWhilePlaying
  /\ [](gameState.lives = 0 => gameState.status \in {GAMEOVER, START})

\* C34, as the App has it: the same, and lives = 0 occurs only with status
\* GAMEOVER, START or TUTORIAL, the tutorial being opened from a menu that was
\* reached from a game over by the plain menu button.
C34_LivesZeroUntilStartGame ==
  /\ LivesWhilePlaying
  /\ [](gameState.lives = 0 => gameState.status \in {GAMEOVER, START, TUTORIAL})

\* the last step of a tutorial opened after a lost game, lives still 0
C34_Witness ==
  /\ gameState.status = TUTORIAL
  /\ gameState.lives = 0
  /\ tutorialStep = 3
  /\ bubbles # <<>>

\* the bubbles of the collection that are not in it after the step
Leaving == {i \in 1..Len(bubbles) : bubbles[i].id \notin BubbleIds(bubbles')}

\* bubble i leaves by a destroying pop: it alone leaves, its points are added
\* to the score, no life is lost
LeavesByPop(i) ==
  /\ Pop
  /\ gameState.status = PLAYING
  /\ bubbles[i].health = 1
  /\ Leaving = {i}
  /\ gameState'.score = gameState.score + bubbles[i].points
  /\ gameState'.lives >= gameState.lives
  /\ gameState'.status = PLAYING

\* bubble i leaves as missed: the frame takes it above the top, the score stays,
\* no life is won
LeavesByMiss(i) ==
  /\ Tick
  /\ bubbles[i].y - bubbles[i].speed < -(bubbles[i].size * 1000)
  /\ gameState'.score = gameState.score
  /\ gameState'.lives <= gameState.lives

\* C35: however taps and frames interleave, a bubble leaves the collection once,
\* by a destroying pop or as missed and never both: ids are never used again
\* within a session, a bubble that leaves does so in a step that either adds its
\* points and takes no life or leaves the score alone, and the score grows only
\* in the step in which the bubble whose points are added leaves.
C35_LeavesOnce ==
  /\ [](\A i \in 1..Len(bubbles) :
          /\ bubbles[i].id < nextId
          /\ \A j \in 1..Len(bubbles) : i < j => bubbles[i].id < bubbles[j].id)
  /\ [][~SessionBoundary
          => /\ nextId' >= nextId
             /\ BubbleIds(bubbles') \subseteq BubbleIds(bubbles) \cup {nextId}
             /\ \A i \in Leaving : LeavesByPop(i) # LeavesByMiss(i)
             /\ gameState'.score # gameState.score
                  => \E i \in Leaving : LeavesByPop(i)]_vars

\* one Speedy bubble popped, another one missed, later ones still rising; the
\* ids of the two that left are below the ids on screen
C35_Witness ==
  /\ gameState.status = PLAYING
  /\ gameState.score = 250
  /\ gameState.lives = INITIAL_LIVES - 1
  /\ bubbles # <<>>
  /\ bubbles[1].id = 3

\* the bubbles that the next frame takes above the top
AboveTopNext ==
  {i \in 1..Len(bubbles) : bubbles[i].y - bubbles[i].speed < -(bubbles[i].size * 1000)}

\* C36: after every frame no bubble of the collection has y < -size: a frame
\* removes every bubble that its advance takes above the top, of whatever type
\* (a missed Heart or Gold bubble too, at no cost), and removes no other bubble.
C36_NoneAboveTop ==
  /\ [](\A i \in 1..Len(bubbles) : bubbles[i].y >= -(bubbles[i].size * 1000))
  /\ [][Tick
          => /\ \A i \in AboveTopNext : bubbles[i].id \notin BubbleIds(bubbles')
             /\ \A i \in 1..Len(bubbles) \ AboveTopNext :
                  \E j \in 1..Len(bubbles') :
                    /\ bubbles'[j].id = bubbles[i].id
                    /\ bubbles'[j].y = bubbles[i].y - bubbles[i].speed
             /\ Len(bubbles') \in {Len(bubbles) - Cardinality(AboveTopNext),
                                   Len(bubbles) - Cardinality(AboveTopNext) + 1}
             /\ (AboveTopNext # {} /\ \A i \in AboveTopNext : ~IsPenalty(bubbles[i]))
                  => gameState' = gameState]_vars

\* a Gold bubble has left through the top, untouched, and has cost nothing
C36_Witness ==
  /\ env = GoldEnv
  /\ gameState.status = PLAYING
  /\ gameState.lives = INITIAL_LIVES
  /\ gameState.score = 0
  /\ nextId = 2
  /\ bubbles = <<>>

\* C37: the plain menu button of the pause and game-over overlays changes the
\* status to START and nothing else: score, lives, level, feedback message,
\* highScore and the three collections stay exactly as they were.  The menu can
\* therefore hold bubbles, particles, texts and lives 0, and score, lives, level
\* and the collections stay as they are, in the menu and in the tutorial, until
\* the next startGame.
C37_MenuKeepsGame ==
  /\ [][ReturnToMenu
          => /\ gameState.status \in {PAUSED, GAMEOVER}
             /\ gameState' = [gameState EXCEPT !.status = START]
             /\ UNCHANGED <<bubbles, particles, floatingTexts, nextId>>]_vars
  /\ [][gameState.status \in {START, TUTORIAL} /\ ~StartGameCalled
          => /\ UNCHANGED <<bubbles, particles, floatingTexts>>
             /\ gameState'.score = gameState.score
             /\ gameState'.lives = gameState.lives
             /\ gameState'.level = gameState.level
             /\ gameState'.highScore = gameState.highScore
             /\ gameState'.status \in {START, TUTORIAL}]_vars

\* the menu after a lost game: lives 0, the score of the game, bubbles,
\* particles and a floating text still held
C37_Witness ==
  /\ gameState.status = START
  /\ gameState.lives = 0
  /\ gameState.score > 0
  /\ bubbles # <<>>
  /\ particles # <<>>
  /\ floatingTexts # <<>>

\* C38: every bubble has speed > 0, so while frames go on and nothing is tapped
\* every bubble that is spawned leaves as missed unless the game ends first; with
\* penalised bubbles being spawned and no taps, lives never go up and the status
\* becomes GAMEOVER in the end.
C38_MissedInTheEnd ==
  /\ [](\A i \in 1..Len(bubbles) : bubbles[i].speed > 0)
  /\ [][gameState'.lives <= gameState.lives]_vars
  /\ \A id \in 1..MaxSpawnedSlow :
       (id \in BubbleIds(bubbles))
         ~> (id \notin BubbleIds(bubbles) \/ gameState.status = GAMEOVER)
  /\ <>(gameState.status = GAMEOVER)

\* a game lost without a tap at level 3: the first three bubbles have left
\* through the top, the later ones are still on screen
C38_Witness ==
  /\ gameState.status = GAMEOVER
  /\ gameState.level = 3
  /\ gameState.lives = 0
  /\ gameState.score = 2400
  /\ bubbles # <<>>
  /\ bubbles[1].id = 4
  /\ particles = <<>>

\* C39: highScore never goes down, whatever is done (start, reset, menu, pause,
\* taps, frames, game overs); it changes only in the handling of an entry into
\* GAMEOVER, after which it is at least the final score of that game, hence of
\* every game that has reached GAMEOVER; a game that is abandoned by a restart, a
\* reset or the menu leaves it as it was.
C39_HighScoreMonotone ==
  /\ [][gameState'.highScore >= gameState.highScore]_vars
  /\ [][gameState'.highScore # gameState.highScore => EntersGameOver /\ Tick]_vars
  /\ [][EntersGameOver
          => /\ gameState'.highScore >= gameState'.score
             /\ gameState'.score = gameState.score]_vars
  /\ [](gameState.status = GAMEOVER => gameState.highScore >= gameState.score)
  /\ [](localStorage = gameState.highScore)
  /\ [][StartGameCalled \/ ResetToMenu \/ ReturnToMenu
          => gameState'.highScore = gameState.highScore]_vars

\* a second game is lost with no point scored while the feedback of the first,
\* which set the record of 250, is still awaited: the record stays
C39_Witness ==
  /\ gameState.status = GAMEOVER
  /\ gameState.score = 0
  /\ gameState.highScore = 250
  /\ Len(feedbackTimers) = 2

====
